---------------------------- MODULE Spec2Model ----------------------------
(***************************************************************************)
(* Model of chunked_media/models.py: the configured-model resolver         *)
(* (get_media_model), the pre_delete receiver (media_delete) with the      *)
(* FieldFile.delete calls it makes, and the derived accessor `sources`.    *)
(* The host framework's parts that the module calls into (the application  *)
(* registry, signal dispatch by sender, the row removal that follows the   *)
(* pre_delete signal, the storage backend) are modelled by what they do.   *)
(***************************************************************************)
EXTENDS Integers, Sequences, FiniteSets, TLC

\* ------------------------------------------------------------------ bounds
\* longest CHUNKED_MEDIA_MODEL string enumerated
MaxLen == 3
\* number of records ever created (primary keys 1..MaxRecords, never reused)
MaxRecords == 2

\* ------------------------------------------------------ configuration value
\* characters of a setting string: two letters, an upper-case letter and the
\* separator
Chars == {"a", "m", "M", "."}

\* all strings of length n over Chars
RECURSIVE StringsOfLen(_)
StringsOfLen(n) ==
    IF n = 0 THEN {<<>>}
    ELSE {<<c>> \o s : c \in Chars, s \in StringsOfLen(n - 1)}

Strings == UNION {StringsOfLen(n) : n \in 0..MaxLen}

\* settings.CHUNKED_MEDIA_MODEL: not set at all, set to None, or a string
ConfigValues ==
    {[tag |-> "absent", s |-> <<>>], [tag |-> "none", s |-> <<>>]}
        \cup {[tag |-> "str", s |-> s] : s \in Strings}

\* str.split('.'): the parts between the separators, one more than separators
RECURSIVE Split(_)
Split(s) ==
    IF s = <<>> THEN << <<>> >>
    ELSE IF Head(s) = "." THEN << <<>> >> \o Split(Tail(s))
    ELSE LET r == Split(Tail(s))
         IN  << <<Head(s)>> \o Head(r) >> \o Tail(r)

\* number of '.' separators in a string
RECURSIVE Separators(_)
Separators(s) ==
    IF s = <<>> THEN 0
    ELSE (IF Head(s) = "." THEN 1 ELSE 0) + Separators(Tail(s))

\* str.lower() on the model name, as the registry does before its lookup
RECURSIVE Lower(_)
Lower(s) ==
    IF s = <<>> THEN <<>>
    ELSE <<IF Head(s) = "M" THEN "m" ELSE Head(s)>> \o Lower(Tail(s))

\* ------------------------------------------------------------ type registry
\* class Media(AbstractMedia), registered under its app label when the module
\* is imported
Media == "Media"

\* the registry entry of the built-in type
MediaEntry == [app |-> <<"a">>, name |-> <<"m">>, model |-> Media]

\* types a host application may register besides the built-in one
HostEntries ==
    {[app |-> <<"m">>, name |-> <<"a">>, model |-> "CustomMedia"],
     [app |-> <<"m">>, name |-> <<"m">>, model |-> "OtherModel"]}

Registries == {{MediaEntry} \cup h : h \in SUBSET HostEntries}

\* the registry's entries for (app_label, model_name), name compared lower-case
Registered(reg, app_label, model_name) ==
    {e \in reg : e.app = app_label /\ e.name = Lower(model_name)}

\* mutant: the lookup ignores the app label
apps_get_model_AnyApp(reg, app_label, model_name) ==
    LET found == {e \in reg : e.name = Lower(model_name)}
    IN  IF found = {} THEN [raised |-> "LookupError", model |-> "None"]
        ELSE [raised |-> "", model |-> (CHOOSE e \in found : TRUE).model]

\* apps.get_model(app_label, model_name): the registered class, or LookupError
apps_get_model(reg, app_label, model_name) ==
    LET found == Registered(reg, app_label, model_name)
    IN  IF found = {} THEN [raised |-> "LookupError", model |-> "None"]
        ELSE [raised |-> "", model |-> (CHOOSE e \in found : TRUE).model]

\* mutant: only a setting of None counts as having no split
RaisesAttributeError_NoneOnly(v) == v.tag = "none"

\* settings.CHUNKED_MEDIA_MODEL.split raises AttributeError: the setting is
\* absent, or its value has no split method
RaisesAttributeError(v) == v.tag # "str"

\* mutant: any value with at least two parts unpacks
UnpacksToPair_AtLeastTwo(parts) == Len(parts) >= 2

\* app_label, model_name = parts succeeds (otherwise ValueError)
UnpacksToPair(parts) == Len(parts) = 2

\* get_media_model(): what it returns or raises, and the registry lookups made
get_media_model(v, reg) ==
    IF RaisesAttributeError(v)
    THEN [kind |-> "ok", model |-> Media, lookups |-> <<>>]
    ELSE LET parts == Split(v.s)
         IN  IF ~UnpacksToPair(parts)
             THEN [kind |-> "ImproperlyConfigured", model |-> "None",
                   lookups |-> <<>>]
             ELSE LET app_label == parts[1]
                      model_name == parts[2]
                      media_model == apps_get_model(reg, app_label, model_name)
                      looked == << <<app_label, model_name>> >>
                  IN  IF media_model.raised # ""
                      THEN [kind |-> media_model.raised, model |-> "None",
                            lookups |-> looked]
                      ELSE IF media_model.model = "None"
                      THEN [kind |-> "ImproperlyConfigured", model |-> "None",
                            lookups |-> looked]
                      ELSE [kind |-> "ok", model |-> media_model.model,
                            lookups |-> looked]

\* ------------------------------------------------------ records and storage
\* a FileField whose name is empty: bool(field_file) is False
Empty == [dir |-> "", n |-> 0]

\* file = FileField(upload_to='media'): the stored name of record id's file
FileName(id) == [dir |-> "media", n |-> id]

\* thumbnail = FileField(upload_to='media_thumbnails', blank=True)
ThumbName(id) == [dir |-> "media_thumbnails", n |-> id]

\* no instance held by the caller
NoInst == [pk |-> 0, model |-> "None", file |-> Empty, thumbnail |-> Empty]

\* no delete operation has been called yet
NoOp ==
    [pk |-> 0, model |-> "None", file |-> Empty, thumbnail |-> Empty,
     hooks |-> 0, storageRaised |-> "", result |-> "none"]

\* reverse('chunked_media:index')
IndexRoute == "chunked_media:index"

Idle == [at |-> "idle", i |-> 0]

VARIABLES
    setting,      \* settings.CHUNKED_MEDIA_MODEL
    registry,     \* the application registry's models
    resolved,     \* outcome of the last get_media_model() call
    rows,         \* the table: primary key -> stored row
    storage,      \* names of the resources the storage backend holds
    nextId,       \* next primary key
    inst,         \* the model instance the caller holds
    pc,           \* position inside instance.delete()
    op,           \* the delete operation in progress, or the last one
    requests,     \* storage.delete requests issued by that operation
    deleted,      \* the rows removed so far
    lastSources   \* outcome of the last evaluation of instance.sources

vars ==
    <<setting, registry, resolved, rows, storage, nextId, inst, pc, op,
      requests, deleted, lastSources>>

Init ==
    /\ setting \in ConfigValues
    /\ registry \in Registries
    /\ resolved = [kind |-> "none", model |-> "None", lookups |-> <<>>]
    /\ rows = [k \in {} |-> Empty]
    /\ storage = {}
    /\ nextId = 1
    /\ inst = NoInst
    /\ pc = Idle
    /\ op = NoOp
    /\ requests = <<>>
    /\ deleted = {}
    /\ lastSources =
           [called |-> FALSE, unresolvable |-> FALSE, raised |-> "",
            list |-> <<>>]

\* ------------------------------------------------------------- the resolver
\* a component asks for the active media type
GetMediaModel ==
    /\ pc = Idle
    /\ resolved' = get_media_model(setting, registry)
    /\ UNCHANGED <<setting, registry, rows, storage, nextId, inst, pc, op,
                   requests, deleted, lastSources>>

\* --------------------------------------------------------- record lifecycle
\* a record of the active type is created from an upload, with or without a
\* thumbnail; the storage backend stores each resource under a fresh name
Create(withThumbnail) ==
    LET active == get_media_model(setting, registry)
        id == nextId
        row == [model |-> active.model, file |-> FileName(id),
                thumbnail |-> IF withThumbnail THEN ThumbName(id) ELSE Empty]
    IN  /\ pc = Idle
        /\ nextId <= MaxRecords
        /\ active.kind = "ok"
        /\ rows' = [k \in DOMAIN rows \cup {id} |->
                        IF k = id THEN row ELSE rows[k]]
        /\ storage' = storage \cup ({row.file, row.thumbnail} \ {Empty})
        /\ nextId' = nextId + 1
        /\ UNCHANGED <<setting, registry, resolved, inst, pc, op, requests,
                       deleted, lastSources>>

\* objects.get(pk=id): the caller loads a stored record
Load(id) ==
    /\ pc = Idle
    /\ id \in DOMAIN rows
    /\ inst' = [pk |-> id, model |-> rows[id].model, file |-> rows[id].file,
                thumbnail |-> rows[id].thumbnail]
    /\ UNCHANGED <<setting, registry, resolved, rows, storage, nextId, pc, op,
                   requests, deleted, lastSources>>

\* ------------------------------------------------------- derived accessors
\* mutant: a field file always counts as set
FieldFileSet_Always(f) == TRUE

\* bool(field_file): the field has a name
FieldFileSet(f) == f # Empty

\* AbstractMedia.url: file.url raises ValueError when the field has no file,
\* else it is what the storage backend answers
url(self, backendUrl) ==
    IF ~FieldFileSet(self.file)
    THEN [raised |-> "ValueError", value |-> ""]
    ELSE [raised |-> "", value |-> backendUrl]

\* AbstractMedia.sources
sources(self, backendUrl, guessedType) ==
    LET u == url(self, backendUrl)
    IN  IF u.raised # ""
        THEN [raised |-> u.raised, list |-> <<>>]
        ELSE [raised |-> "",
              list |-> <<[src |-> IF u.value # "" THEN u.value
                                  ELSE IndexRoute,
                          type |-> IF guessedType # "" THEN guessedType
                                   ELSE "application/octet-stream"]>>]

\* the caller evaluates instance.sources; the backend answers an address or
\* nothing, and mimetypes recognises the file name or not
Sources ==
    /\ pc = Idle
    /\ inst.model # "None"
    /\ \E backendUrl \in {"/media/address", ""}, guessedType \in {"audio/mpeg", ""} :
          LET out == sources(inst, backendUrl, guessedType)
          IN  lastSources' =
                  [called |-> TRUE,
                   unresolvable |-> (inst.file = Empty \/ backendUrl = ""),
                   raised |-> out.raised, list |-> out.list]
    /\ UNCHANGED <<setting, registry, resolved, rows, storage, nextId, inst,
                   pc, op, requests, deleted>>

\* ------------------------------------------------------------------ delete
\* @receiver(pre_delete, sender=Media): the sender the receiver is connected
\* for
ReceiverSender == Media

\* the receivers pre_delete.send(sender=...) calls: matched on the sender class
HookConnected(sender) == sender = ReceiverSender

\* mutant: the thumbnail is deleted before the file
HookBody_ThumbnailFirst == <<"thumbnail", "file">>

\* the statements of media_delete, in order
HookBody == <<"file", "thumbnail">>

\* mutant: the record is saved after each deletion
HookSave_True == TRUE

\* the save argument both statements pass: delete(False)
HookSave == FALSE

\* mutant: the error is swallowed and the delete goes on
AfterRaise_Swallow(next) == next

\* an error raised inside the receiver is not caught: it leaves media_delete
\* and instance.delete()
AfterRaise(next) == Idle

\* instance.delete() is called on a stored instance
DeleteStart ==
    /\ pc = Idle
    /\ inst.pk \in DOMAIN rows
    /\ pc' = [at |-> "pre_delete", i |-> 0]
    /\ op' = [pk |-> inst.pk, model |-> inst.model, file |-> inst.file,
              thumbnail |-> inst.thumbnail, hooks |-> 0,
              storageRaised |-> "", result |-> "running"]
    /\ requests' = <<>>
    /\ UNCHANGED <<setting, registry, resolved, rows, storage, nextId, inst,
                   deleted, lastSources>>

\* pre_delete is sent with the instance's class as sender, before the row is
\* touched
SendPreDelete ==
    /\ pc.at = "pre_delete"
    /\ IF HookConnected(inst.model)
       THEN /\ pc' = [at |-> "hook", i |-> 1]
            /\ op' = [op EXCEPT !.hooks = @ + 1]
       ELSE /\ pc' = [at |-> "remove_row", i |-> 0]
            /\ UNCHANGED op
    /\ UNCHANGED <<setting, registry, resolved, rows, storage, nextId, inst,
                   requests, deleted, lastSources>>

\* instance.<field>.delete(save): nothing for an empty field; else the backend
\* is asked to remove the resource, which it does or raises; then the field is
\* cleared on the instance and, with save, the instance is saved
FieldFileDelete(field, save, next) ==
    LET f == inst[field]
    IN  IF ~FieldFileSet(f)
        THEN /\ pc' = next
             /\ UNCHANGED <<storage, requests, inst, rows, op>>
        ELSE \E backendRaises \in BOOLEAN :
                /\ requests' = Append(requests, f)
                /\ IF backendRaises
                   THEN /\ pc' = AfterRaise(next)
                        /\ op' = [op EXCEPT
                                     !.storageRaised = field,
                                     !.result = IF AfterRaise(next) = Idle
                                                THEN "error" ELSE @]
                        /\ UNCHANGED <<storage, inst, rows>>
                   ELSE /\ storage' = storage \ {f}
                        /\ inst' = [inst EXCEPT ![field] = Empty]
                        /\ rows' = IF save /\ inst.pk \in DOMAIN rows
                                   THEN [rows EXCEPT ![inst.pk][field] = Empty]
                                   ELSE rows
                        /\ pc' = next
                        /\ UNCHANGED op

\* one statement of media_delete(sender, instance)
media_delete ==
    /\ pc.at = "hook"
    /\ FieldFileDelete(HookBody[pc.i], HookSave,
                       IF pc.i < Len(HookBody)
                       THEN [at |-> "hook", i |-> pc.i + 1]
                       ELSE [at |-> "remove_row", i |-> 0])
    /\ UNCHANGED <<setting, registry, resolved, nextId, deleted, lastSources>>

\* after the signal the row is removed and the instance loses its key
RemoveRow ==
    /\ pc.at = "remove_row"
    /\ rows' = [k \in DOMAIN rows \ {op.pk} |-> rows[k]]
    /\ deleted' = deleted \cup
                      {[pk |-> op.pk, file |-> rows[op.pk].file,
                        thumbnail |-> rows[op.pk].thumbnail]}
    /\ inst' = [inst EXCEPT !.pk = 0]
    /\ op' = [op EXCEPT !.result = "deleted"]
    /\ pc' = Idle
    /\ UNCHANGED <<setting, registry, resolved, storage, nextId, requests,
                   lastSources>>

Next ==
    \/ GetMediaModel
    \/ \E withThumbnail \in BOOLEAN : Create(withThumbnail)
    \/ \E id \in 1..MaxRecords : Load(id)
    \/ Sources
    \/ DeleteStart
    \/ SendPreDelete
    \/ media_delete
    \/ RemoveRow

Spec == Init /\ [][Next]_vars

\* ------------------------------------------------------------------ claims
\* the setting is a string with exactly n separators
SettingWithSeparators(n) == setting.tag = "str" /\ Separators(setting.s) = n

\* the part of the setting before its first separator
RECURSIVE Before(_)
Before(s) ==
    IF s = <<>> \/ Head(s) = "." THEN <<>> ELSE <<Head(s)>> \o Before(Tail(s))

\* the part of the setting after its first separator
RECURSIVE After(_)
After(s) ==
    IF s = <<>> THEN <<>> ELSE IF Head(s) = "." THEN Tail(s) ELSE After(Tail(s))

\* the registry entries the setting's pair names
SettingEntries == Registered(registry, Before(setting.s), After(setting.s))

\* every resource a removed row referred to is gone from storage
NoOrphans ==
    \A d \in deleted : d.file \notin storage /\ d.thumbnail \notin storage

\* C1: every delete of a record of the active type runs the deletion hook
\* exactly once, before the row is removed, so that no file or thumbnail
\* resource of a deleted record remains in storage.
C1_HookOncePerDelete_NoOrphans ==
    /\ (pc.at = "remove_row" \/ op.result = "deleted") => op.hooks = 1
    /\ NoOrphans

\* C2: a one-separator setting whose pair is not registered makes
\* get_media_model fail with ImproperlyConfigured and no other error.
C2_UnregisteredPair_ImproperlyConfigured ==
    (resolved.kind # "none" /\ SettingWithSeparators(1) /\ SettingEntries = {})
        => resolved.kind = "ImproperlyConfigured"

\* C3: a setting string with zero or with two or more separators makes
\* get_media_model fail with ImproperlyConfigured, without a registry lookup
\* and without returning a type.
C3_Malformed_ImproperlyConfigured ==
    (resolved.kind # "none" /\ setting.tag = "str" /\ Separators(setting.s) # 1)
        => /\ resolved.kind = "ImproperlyConfigured"
           /\ resolved.lookups = <<>>
           /\ resolved.model = "None"

C3_Witness ==
    /\ resolved.kind = "ImproperlyConfigured"
    /\ setting.tag = "str"
    /\ Separators(setting.s) >= 2

\* C4: a one-separator setting whose pair is registered makes get_media_model
\* return exactly the registered type.
C4_RegisteredPair_ReturnsType ==
    \A e \in registry :
        (resolved.kind # "none" /\ SettingWithSeparators(1)
            /\ Before(setting.s) = e.app /\ Lower(After(setting.s)) = e.name)
        => resolved.kind = "ok" /\ resolved.model = e.model

C4_Witness ==
    /\ resolved.kind = "ok"
    /\ SettingWithSeparators(1)
    /\ resolved.model = "CustomMedia"
    /\ Cardinality(registry) = 3

\* C5: with the setting absent get_media_model returns the built-in Media,
\* whatever the registry holds, and raises nothing.
C5_Absent_ReturnsMedia ==
    (resolved.kind # "none" /\ setting.tag = "absent")
        => resolved.kind = "ok" /\ resolved.model = Media

C5_Witness ==
    /\ resolved.kind = "ok"
    /\ setting.tag = "absent"
    /\ registry = {MediaEntry} \cup HostEntries

\* C6: a delete of a record with file and thumbnail set, with no storage
\* failure, ends with the file resource, the thumbnail resource and the row
\* all removed.
C6_DeleteRemovesBothAndRow ==
    (op.result = "deleted" /\ op.storageRaised = ""
        /\ op.file # Empty /\ op.thumbnail # Empty)
        => /\ op.file \notin storage
           /\ op.thumbnail \notin storage
           /\ op.pk \notin DOMAIN rows

C8_SourcesFallsBackToIndex ==
    lastSources.called
        => /\ lastSources.raised = ""
           /\ Len(lastSources.list) = 1
           /\ (lastSources.unresolvable
                  => lastSources.list[1].src = IndexRoute)

\* C9: a storage error while the hook removes the file reaches the caller,
\* the thumbnail's removal is not attempted and the row stays; a storage
\* error while it removes the thumbnail reaches the caller too and the row
\* stays, with the file resource already gone.
C9_StorageErrorPropagates ==
    /\ op.storageRaised = "file"
          => /\ op.result = "error"
             /\ pc = Idle
             /\ \A k \in DOMAIN requests : requests[k].dir # "media_thumbnails"
             /\ op.pk \in DOMAIN rows
    /\ op.storageRaised = "thumbnail"
          => /\ op.result = "error"
             /\ pc = Idle
             /\ op.pk \in DOMAIN rows
             /\ op.file \notin storage

C9_Witness ==
    /\ op.storageRaised = "thumbnail"
    /\ op.result = "error"
    /\ op.file # Empty
    /\ op.file \notin storage
    /\ op.pk \in DOMAIN rows

\* C10: the hook asks for the file's removal before the thumbnail's and never
\* saves the record; so in every state, a record whose thumbnail resource is
\* removed has its file resource removed too.
C10_FileBeforeThumbnail ==
    /\ \A j, k \in DOMAIN requests :
          (requests[j].dir = "media" /\ requests[k].dir = "media_thumbnails")
              => j < k
    /\ pc.at = "hook" /\ pc.i = 1 => requests = <<>>
    /\ \A id \in DOMAIN rows :
          /\ rows[id].file = FileName(id)
          /\ rows[id].thumbnail \in {Empty, ThumbName(id)}
    /\ \A id \in 1..MaxRecords :
          (id < nextId /\ FileName(id) \in storage)
              => (ThumbName(id) \in storage
                     \/ (id \in DOMAIN rows /\ rows[id].thumbnail = Empty)
                     \/ \E d \in deleted : d.pk = id /\ d.thumbnail = Empty)

C10_Witness ==
    /\ pc.at = "hook"
    /\ pc.i = 2
    /\ op.thumbnail # Empty
    /\ op.file \notin storage
    /\ op.thumbnail \in storage

=============================================================================
